---- MODULE Spec2Model ----
(***************************************************************************)
(* DataInspector (rfsoc_radio/data_inspector.py): the driver of the data   *)
(* inspector peripheral.  Three memory-mapped registers (reset, enable,    *)
(* packetsize), one DMA-capable acquisition buffer, one DMA receive        *)
(* channel.  The caller's thread runs __init__, get_frame, set_shape and   *)
(* set_plotting_rate; the refresh driver (DmaTimer) runs get_frame on its  *)
(* own thread once started.  Every statement of get_frame and set_shape    *)
(* that touches a register, the buffer or the channel is one step.  The    *)
(* sample values and the plots are left out: a frame is its sample count.  *)
(***************************************************************************)
EXTENDS Integers, Sequences, FiniteSets, TLC

VARIABLES
    reset,        \* register at offset 0
    enable,       \* register at offset 4
    packetsize,   \* register at offset 8
    freed,        \* per buffer allocate() has handed out: freebuffer() was called
    buffer,       \* self.buffer: index into freed, 0 before line 27
    bufShape,     \* self.buffer.shape
    dma,          \* axi_dma.recvchannel: [state, buf]
    pc,           \* per thread: the source line about to run
    xbuf,         \* per thread: the buffer its get_frame passed to transfer
    frame,        \* per thread: complex samples in the frame last returned
    psAtCall,     \* per thread: packetsize when its get_frame began
    hw,           \* per thread: hardware steps of its current get_frame
    overlap,      \* per thread: another get_frame ran during its get_frame
    plottingRate, \* self._plotting_rate
    timerT,       \* self._plot_controller.t
    constructed,  \* __init__ has returned
    arg,          \* set_shape's argument `shape`
    tshape,       \* set_shape's local `tshape`
    op,           \* the caller's current (or last) call
    outcome,      \* "pending" | "returned" | "raised"
    exc,          \* the exception that ended the caller's last call
    prePs,        \* packetsize when the caller's current set_shape began
    preBuf,       \* self.buffer when the caller's current set_shape began
    allocFailed   \* allocate() raised in the caller's current call

vars == <<reset, enable, packetsize, freed, buffer, bufShape, dma, pc, xbuf, frame,
          psAtCall, hw, overlap, plottingRate, timerT, constructed, arg,
          tshape, op, outcome, exc, prePs, preBuf, allocFailed>>

\* Bounds of the model: the largest dimension of a shape, and the number of
\* buffers allocate() hands out in one run.
MaxDim == 2
MaxBufs == 3

\* self.data_inspector_module.packetsize = 64
InitialPacketsize == 64

Procs == {"user", "timer"}

Other(p) == IF p = "user" THEN "timer" ELSE "user"

\* The plotting rates the caller may pass (seconds, as text).
Rates == {"0.5", "1.0"}

\* The tuples the caller may pass to set_shape: empty, (n,) and (n, m).
Shapes ==
    {<<>>} \cup {<<n>> : n \in 1..MaxDim}
           \cup {<<n, m>> : n \in 1..MaxDim, m \in 1..MaxDim}

\* The lines of get_frame.
GfPcs == {"L65", "L66", "L67", "L68", "L69", "L70", "L71"}

InGetFrame(p) == pc[p] \in GfPcs

RECURSIVE Product(_)
\* product = 1; for i in shape: product *= i
Product(s) == IF s = <<>> THEN 1 ELSE Head(s) * Product(Tail(s))

\* Number of raw int16 values of self.buffer.
BufLen == Product(bufShape)

\* t_data[::2] + 1j * t_data[1::2]: every other row of the first axis.
ComplexCount(s) == IF s = <<>> THEN 0 ELSE (Head(s) \div 2) * Product(Tail(s))

\* self.buffer = allocate(shape=s, dtype=np.int16) when it succeeds.
Allocate(s) ==
    /\ freed' = Append(freed, FALSE)
    /\ buffer' = Len(freed) + 1
    /\ bufShape' = s

\* The order of the hardware steps of get_frame.
HwOrder == << <<"reset", 0>>, <<"transfer", 0>>, <<"enable", 1>>,
              <<"wait", 0>>, <<"enable", 0>>, <<"reset", 1>> >>

IsPrefix(s, t) == Len(s) <= Len(t) /\ s = SubSeq(t, 1, Len(s))

regV == <<reset, enable, packetsize>>
memV == <<freed, buffer, bufShape>>
thV == <<xbuf, frame, psAtCall, hw, overlap>>
cfgV == <<plottingRate, timerT, constructed>>
callV == <<arg, tshape, op, outcome, exc, prePs, preBuf, allocFailed>>

Init ==
    /\ reset \in {0, 1}
    /\ enable \in {0, 1}
    /\ packetsize = 0
    /\ freed = <<>>
    /\ buffer = 0
    /\ bufShape = <<>>
    /\ dma = [state |-> "idle", buf |-> 0]
    /\ pc = [p \in Procs |-> IF p = "user" THEN "L21" ELSE "stopped"]
    /\ xbuf = [p \in Procs |-> 0]
    /\ frame = [p \in Procs |-> 0]
    /\ psAtCall = [p \in Procs |-> 0]
    /\ hw = [p \in Procs |-> <<>>]
    /\ overlap = [p \in Procs |-> FALSE]
    /\ plottingRate \in Rates
    /\ timerT = "none"
    /\ constructed = FALSE
    /\ arg = <<>>
    /\ tshape = <<>>
    /\ op = "__init__"
    /\ outcome = "pending"
    /\ exc = "none"
    /\ prePs = 0
    /\ preBuf = 0
    /\ allocFailed = FALSE

\* The caller begins call o with set_shape argument s (empty otherwise).
BeginCall(o, s) ==
    /\ op' = o
    /\ arg' = s
    /\ tshape' = <<>>
    /\ outcome' = "pending"
    /\ exc' = "none"
    /\ prePs' = IF o = "set_shape" THEN packetsize ELSE 0
    /\ preBuf' = IF o = "set_shape" THEN buffer ELSE 0
    /\ allocFailed' = FALSE

\* What the caller's last get_frame left behind is dropped by its next call.
DropFrame ==
    /\ frame' = [frame EXCEPT !["user"] = 0]
    /\ psAtCall' = [psAtCall EXCEPT !["user"] = 0]
    /\ hw' = [hw EXCEPT !["user"] = <<>>]
    /\ UNCHANGED <<xbuf, overlap>>

\* Thread p enters get_frame.
EnterGetFrame(p) ==
    /\ pc' = [pc EXCEPT ![p] = "L65"]
    /\ frame' = [frame EXCEPT ![p] = 0]
    /\ psAtCall' = [psAtCall EXCEPT ![p] = packetsize]
    /\ hw' = [hw EXCEPT ![p] = <<>>]
    /\ overlap' = IF InGetFrame(Other(p))
                    THEN [q \in Procs |-> TRUE]
                    ELSE [overlap EXCEPT ![p] = FALSE]
    /\ UNCHANGED xbuf

----------------------------------------------------------------------------
\* __init__

InitPacketsize ==
    /\ pc["user"] = "L21"
    /\ packetsize' = InitialPacketsize
    /\ pc' = [pc EXCEPT !["user"] = "L22"]
    /\ UNCHANGED <<reset, enable, memV, dma, thV, cfgV, callV>>

InitEnable ==
    /\ pc["user"] = "L22"
    /\ enable' = 0
    /\ pc' = [pc EXCEPT !["user"] = "L23"]
    /\ UNCHANGED <<reset, packetsize, memV, dma, thV, cfgV, callV>>

InitReset ==
    /\ pc["user"] = "L23"
    /\ reset' = 1
    /\ pc' = [pc EXCEPT !["user"] = "L27"]
    /\ UNCHANGED <<enable, packetsize, memV, dma, thV, cfgV, callV>>

\* self.buffer = allocate(shape=(int(packetsize*2),), dtype=np.int16)
InitAllocate ==
    /\ pc["user"] = "L27"
    /\ \/ /\ Allocate(<<packetsize * 2>>)
          /\ pc' = [pc EXCEPT !["user"] = "L29"]
          /\ UNCHANGED <<outcome, exc, allocFailed>>
       \/ /\ pc' = [pc EXCEPT !["user"] = "failed"]
          /\ outcome' = "raised"
          /\ exc' = "AllocError"
          /\ allocFailed' = TRUE
          /\ UNCHANGED memV
    /\ UNCHANGED <<regV, dma, thV, cfgV, arg, tshape, op, prePs, preBuf>>

\* self._data = self.get_frame(): the call.
InitGetFrame ==
    /\ pc["user"] = "L29"
    /\ EnterGetFrame("user")
    /\ UNCHANGED <<regV, memV, dma, cfgV, callV>>

\* The rest of line 29 and lines 30-33: the plots and the DmaTimer.
InitPlots ==
    /\ pc["user"] = "L30"
    /\ timerT' = plottingRate
    /\ constructed' = TRUE
    /\ outcome' = "returned"
    /\ pc' = [pc EXCEPT !["user"] = "idle"]
    /\ UNCHANGED <<regV, memV, dma, thV, plottingRate,
                   arg, tshape, op, exc, prePs, preBuf, allocFailed>>

----------------------------------------------------------------------------
\* set_plotting_rate

SetPlottingRate(rate) ==
    /\ pc["user"] = "idle"
    /\ plottingRate' = rate
    /\ timerT' = rate
    /\ BeginCall("set_plotting_rate", <<>>)
    /\ DropFrame
    /\ UNCHANGED <<regV, memV, dma, pc, constructed>>

----------------------------------------------------------------------------
\* set_shape

SetShape(shape) ==
    /\ pc["user"] = "idle"
    /\ Len(freed) < MaxBufs
    /\ pc' = [pc EXCEPT !["user"] = "L52"]
    /\ BeginCall("set_shape", shape)
    /\ DropFrame
    /\ UNCHANGED <<regV, memV, dma, cfgV>>

\* set_shape without line 52: the old buffer is never released.
SsFree_Skipped ==
    /\ pc["user"] = "L52"
    /\ pc' = [pc EXCEPT !["user"] = "L53"]
    /\ UNCHANGED <<regV, memV, dma, thV, cfgV, callV>>

\* self.buffer.freebuffer()
SsFree ==
    /\ pc["user"] = "L52"
    /\ freed' = [freed EXCEPT ![buffer] = TRUE]
    /\ pc' = [pc EXCEPT !["user"] = "L53"]
    /\ UNCHANGED <<regV, buffer, bufShape, dma, thV, cfgV, callV>>

\* Lines 53-55 with the doubling of lshape[0] left out.
SsLshape_NoDoubling ==
    /\ pc["user"] = "L53"
    /\ IF arg = <<>>
         THEN /\ pc' = [pc EXCEPT !["user"] = "idle"]
              /\ outcome' = "raised"
              /\ exc' = "IndexError"
              /\ UNCHANGED tshape
         ELSE /\ tshape' = arg
              /\ pc' = [pc EXCEPT !["user"] = "L56"]
              /\ UNCHANGED <<outcome, exc>>
    /\ UNCHANGED <<regV, memV, dma, thV, cfgV, arg, op, prePs, preBuf,
                   allocFailed>>

\* lshape = list(shape); lshape[0] = lshape[0] * 2; tshape = tuple(lshape)
\* (an empty tuple has no lshape[0]: IndexError)
SsLshape ==
    /\ pc["user"] = "L53"
    /\ IF arg = <<>>
         THEN /\ pc' = [pc EXCEPT !["user"] = "idle"]
              /\ outcome' = "raised"
              /\ exc' = "IndexError"
              /\ UNCHANGED tshape
         ELSE /\ tshape' = [arg EXCEPT ![1] = arg[1] * 2]
              /\ pc' = [pc EXCEPT !["user"] = "L56"]
              /\ UNCHANGED <<outcome, exc>>
    /\ UNCHANGED <<regV, memV, dma, thV, cfgV, arg, op, prePs, preBuf,
                   allocFailed>>

\* Line 56 with a failed allocation swallowed: set_shape keeps the old buffer
\* and goes on to line 57.
SsAllocate_Fallback ==
    /\ pc["user"] = "L56"
    /\ \/ /\ Allocate(tshape)
          /\ UNCHANGED allocFailed
       \/ /\ allocFailed' = TRUE
          /\ UNCHANGED memV
    /\ pc' = [pc EXCEPT !["user"] = "L57"]
    /\ UNCHANGED <<regV, dma, thV, cfgV, arg, tshape, op, outcome, exc, prePs,
                   preBuf>>

\* self.buffer = allocate(shape=tshape, dtype=np.int16)
SsAllocate ==
    /\ pc["user"] = "L56"
    /\ \/ /\ Allocate(tshape)
          /\ pc' = [pc EXCEPT !["user"] = "L57"]
          /\ UNCHANGED <<outcome, exc, allocFailed>>
       \/ /\ pc' = [pc EXCEPT !["user"] = "idle"]
          /\ outcome' = "raised"
          /\ exc' = "AllocError"
          /\ allocFailed' = TRUE
          /\ UNCHANGED memV
    /\ UNCHANGED <<regV, dma, thV, cfgV, arg, tshape, op, prePs, preBuf>>

\* Lines 57-60 with the first dimension taken for the product.
SsPacketsize_FirstDimOnly ==
    /\ pc["user"] = "L57"
    /\ packetsize' = arg[1]
    /\ pc' = [pc EXCEPT !["user"] = "idle"]
    /\ outcome' = "returned"
    /\ UNCHANGED <<reset, enable, memV, dma, thV, cfgV, arg, tshape, op, exc,
                   prePs, preBuf, allocFailed>>

\* product = 1; for i in shape: product *= i; packetsize = product
SsPacketsize ==
    /\ pc["user"] = "L57"
    /\ packetsize' = Product(arg)
    /\ pc' = [pc EXCEPT !["user"] = "idle"]
    /\ outcome' = "returned"
    /\ UNCHANGED <<reset, enable, memV, dma, thV, cfgV, arg, tshape, op, exc,
                   prePs, preBuf, allocFailed>>

----------------------------------------------------------------------------
\* get_frame

\* A manual get_frame() by the caller.
CallGetFrame ==
    /\ pc["user"] = "idle"
    /\ EnterGetFrame("user")
    /\ BeginCall("get_frame", <<>>)
    /\ UNCHANGED <<regV, memV, dma, cfgV>>

\* self.data_inspector_module.reset = 0
GfDeassertReset(p) ==
    /\ pc[p] = "L65"
    /\ reset' = 0
    /\ hw' = [hw EXCEPT ![p] = Append(@, <<"reset", 0>>)]
    /\ pc' = [pc EXCEPT ![p] = "L66"]
    /\ UNCHANGED <<enable, packetsize, memV, dma, xbuf, frame, psAtCall,
                   overlap, cfgV, callV>>

\* self.axi_dma.recvchannel.transfer(self.buffer); a channel that is not idle
\* refuses the transfer with RuntimeError('DMA channel not idle').
GfTransfer(p) ==
    /\ pc[p] = "L66"
    /\ IF dma.state = "running"
         THEN /\ pc' = [pc EXCEPT ![p] = IF p = "timer" THEN "dead"
                                         ELSE IF constructed THEN "idle"
                                         ELSE "failed"]
              /\ outcome' = IF p = "user" THEN "raised" ELSE outcome
              /\ exc' = IF p = "user" THEN "RuntimeError" ELSE exc
              /\ overlap' = [overlap EXCEPT ![p] = FALSE]
              /\ UNCHANGED <<dma, xbuf, hw>>
         ELSE /\ dma' = [state |-> "running", buf |-> buffer]
              /\ xbuf' = [xbuf EXCEPT ![p] = buffer]
              /\ hw' = [hw EXCEPT ![p] = Append(@, <<"transfer", 0>>)]
              /\ pc' = [pc EXCEPT ![p] = "L67"]
              /\ UNCHANGED <<outcome, exc, overlap>>
    /\ UNCHANGED <<regV, memV, frame, psAtCall, cfgV, arg, tshape, op, prePs,
                   preBuf, allocFailed>>

\* self.data_inspector_module.enable = 1
GfAssertEnable(p) ==
    /\ pc[p] = "L67"
    /\ enable' = 1
    /\ hw' = [hw EXCEPT ![p] = Append(@, <<"enable", 1>>)]
    /\ pc' = [pc EXCEPT ![p] = "L68"]
    /\ UNCHANGED <<reset, packetsize, memV, dma, xbuf, frame, psAtCall,
                   overlap, cfgV, callV>>

\* Line 68 with a wait that gives up: it returns whether or not the transfer
\* has completed.
GfWait_NoBlock(p) ==
    /\ pc[p] = "L68"
    /\ hw' = [hw EXCEPT ![p] = Append(@, <<"wait", 0>>)]
    /\ pc' = [pc EXCEPT ![p] = "L69"]
    /\ UNCHANGED <<regV, memV, dma, xbuf, frame, psAtCall, overlap, cfgV,
                   callV>>

\* self.axi_dma.recvchannel.wait(): returns once the channel is idle again.
GfWait(p) ==
    /\ pc[p] = "L68"
    /\ dma.state = "idle"
    /\ hw' = [hw EXCEPT ![p] = Append(@, <<"wait", 0>>)]
    /\ pc' = [pc EXCEPT ![p] = "L69"]
    /\ UNCHANGED <<regV, memV, dma, xbuf, frame, psAtCall, overlap, cfgV,
                   callV>>

\* Line 69 with line 70's write: reset is reasserted while enable is still 1.
GfDeassertEnable_ResetFirst(p) ==
    /\ pc[p] = "L69"
    /\ reset' = 1
    /\ hw' = [hw EXCEPT ![p] = Append(@, <<"reset", 1>>)]
    /\ pc' = [pc EXCEPT ![p] = "L70"]
    /\ UNCHANGED <<enable, packetsize, memV, dma, xbuf, frame, psAtCall,
                   overlap, cfgV, callV>>

\* self.data_inspector_module.enable = 0
GfDeassertEnable(p) ==
    /\ pc[p] = "L69"
    /\ enable' = 0
    /\ hw' = [hw EXCEPT ![p] = Append(@, <<"enable", 0>>)]
    /\ pc' = [pc EXCEPT ![p] = "L70"]
    /\ UNCHANGED <<reset, packetsize, memV, dma, xbuf, frame, psAtCall,
                   overlap, cfgV, callV>>

\* get_frame without line 70: reset is left deasserted.
GfAssertReset_Skipped(p) ==
    /\ pc[p] = "L70"
    /\ hw' = [hw EXCEPT ![p] = Append(@, <<"reset", 1>>)]
    /\ pc' = [pc EXCEPT ![p] = "L71"]
    /\ UNCHANGED <<regV, memV, dma, xbuf, frame, psAtCall, overlap, cfgV,
                   callV>>

\* self.data_inspector_module.reset = 1
GfAssertReset(p) ==
    /\ pc[p] = "L70"
    /\ reset' = 1
    /\ hw' = [hw EXCEPT ![p] = Append(@, <<"reset", 1>>)]
    /\ pc' = [pc EXCEPT ![p] = "L71"]
    /\ UNCHANGED <<enable, packetsize, memV, dma, xbuf, frame, psAtCall,
                   overlap, cfgV, callV>>

\* Lines 71-76: read self.buffer, pair the values, return the frame.
GfReturn(p) ==
    /\ pc[p] = "L71"
    /\ frame' = [frame EXCEPT ![p] = ComplexCount(bufShape)]
    /\ xbuf' = [xbuf EXCEPT ![p] = 0]
    /\ overlap' = [overlap EXCEPT ![p] = FALSE]
    /\ pc' = [pc EXCEPT ![p] = IF p = "timer" THEN "L80"
                                ELSE IF constructed THEN "idle"
                                ELSE "L30"]
    /\ outcome' = IF p = "user" /\ constructed THEN "returned" ELSE outcome
    /\ UNCHANGED <<regV, memV, dma, psAtCall, hw, cfgV, arg, tshape, op, exc,
                   prePs, preBuf, allocFailed>>

\* The steps of get_frame on thread p.
GetFrameStep(p) ==
    \/ GfDeassertReset(p)
    \/ GfTransfer(p)
    \/ GfAssertEnable(p)
    \/ GfWait(p)
    \/ GfDeassertEnable(p)
    \/ GfAssertReset(p)
    \/ GfReturn(p)

----------------------------------------------------------------------------
\* The DMA receive channel: the peripheral has streamed the whole buffer.

DmaComplete ==
    /\ dma.state = "running"
    /\ dma' = [state |-> "idle", buf |-> 0]
    /\ UNCHANGED <<regV, memV, pc, thV, cfgV, callV>>

----------------------------------------------------------------------------
\* The refresh driver (DmaTimer): started once, then on every tick it calls
\* get_frame and hands the frame to _update_data.

StartTimer ==
    /\ pc["user"] = "idle"
    /\ pc["timer"] = "stopped"
    /\ pc' = [pc EXCEPT !["timer"] = "armed"]
    /\ UNCHANGED <<regV, memV, dma, thV, cfgV, callV>>

Tick ==
    /\ pc["timer"] = "armed"
    /\ EnterGetFrame("timer")
    /\ UNCHANGED <<regV, memV, dma, cfgV, callV>>

\* _update_data(data): the frame goes to the plots.
UpdateData ==
    /\ pc["timer"] = "L80"
    /\ frame' = [frame EXCEPT !["timer"] = 0]
    /\ psAtCall' = [psAtCall EXCEPT !["timer"] = 0]
    /\ hw' = [hw EXCEPT !["timer"] = <<>>]
    /\ pc' = [pc EXCEPT !["timer"] = "armed"]
    /\ UNCHANGED <<regV, memV, dma, xbuf, overlap, cfgV, callV>>

----------------------------------------------------------------------------

\* What the caller's thread can do.
UserNext ==
    \/ InitPacketsize
    \/ InitEnable
    \/ InitReset
    \/ InitAllocate
    \/ InitGetFrame
    \/ InitPlots
    \/ \E rate \in Rates : SetPlottingRate(rate)
    \/ \E shape \in Shapes : SetShape(shape)
    \/ SsFree
    \/ SsLshape
    \/ SsAllocate
    \/ SsPacketsize
    \/ CallGetFrame
    \/ GetFrameStep("user")

\* A single caller, the refresh driver never started.
NextSeq == UserNext \/ DmaComplete

\* The caller and the refresh driver.
Next ==
    \/ UserNext
    \/ DmaComplete
    \/ StartTimer
    \/ Tick
    \/ GetFrameStep("timer")
    \/ UpdateData

Spec == Init /\ [][Next]_vars

SpecSeq == Init /\ [][NextSeq]_vars

\* A single caller whose thread keeps running and whose transfers complete.
FairSeq ==
    /\ Init
    /\ [][NextSeq]_vars
    /\ WF_vars(GetFrameStep("user"))
    /\ WF_vars(DmaComplete)

----------------------------------------------------------------------------
\* Properties

\* C1: with a single caller, once __init__ has returned and whenever no
\* get_frame is in progress, the registers read reset = 1 and enable = 0.
C1_IdleRegisters ==
    (constructed /\ ~InGetFrame("user")) => (reset = 1 /\ enable = 0)

\* A get_frame has returned to the caller after a set_shape replaced the buffer.
C1_Witness ==
    /\ constructed
    /\ pc["user"] = "idle"
    /\ op = "get_frame"
    /\ outcome = "returned"
    /\ Len(freed) >= 2
    /\ reset = 1
    /\ enable = 0

\* C2: after set_shape((n,)) has returned, the buffer holds 2n raw values and
\* packetsize holds n, whatever they were before the call.
C2_SetShapeSizes ==
    (op = "set_shape" /\ outcome = "returned" /\ Len(arg) = 1)
        => (BufLen = 2 * arg[1] /\ packetsize = arg[1])

\* set_shape((n,)) has returned and changed the packetsize.
C2_Witness ==
    /\ op = "set_shape"
    /\ outcome = "returned"
    /\ Len(arg) = 1
    /\ prePs # arg[1]
    /\ buffer # preBuf
    /\ packetsize = arg[1]

\* C3: with a single caller, between calls the buffer holds 2 x packetsize raw
\* values, and a frame get_frame has returned holds as many complex samples as
\* packetsize held when the call began.
C3_BufferMatchesPacketsize ==
    /\ (constructed /\ pc["user"] = "idle") => BufLen = 2 * packetsize
    /\ (pc["user"] = "L30" \/ (op = "get_frame" /\ outcome = "returned"))
           => (frame["user"] = psAtCall["user"] /\ psAtCall["user"] = packetsize)

\* get_frame has returned a frame taken from a buffer of shape (2n, m), m > 1.
C3_Witness ==
    /\ constructed
    /\ pc["user"] = "idle"
    /\ op = "get_frame"
    /\ outcome = "returned"
    /\ Len(bufShape) = 2
    /\ bufShape[2] > 1
    /\ ~freed[buffer]
    /\ frame["user"] = packetsize

\* C4: with a single caller, the buffer get_frame has handed to the receive
\* channel, and the buffer it reads back, has not been released.
C4_NoUseAfterRelease ==
    /\ pc["user"] \in {"L67", "L68"} => ~freed[xbuf["user"]]
    /\ pc["user"] = "L71" => ~freed[buffer]

\* C5: no buffer is released while a transfer into it is outstanding, that
\* is between a thread's transfer() and the return of its wait().
C5_NoReleaseDuringTransfer ==
    [][\A b \in 1..Len(freed) :
          (~freed[b] /\ freed'[b]) =>
              ~\E p \in Procs : pc[p] \in {"L67", "L68"} /\ xbuf[p] = b]_vars

\* C6: the caller and the refresh driver are never both inside get_frame.
C6_AtMostOneCapture ==
    ~(InGetFrame("user") /\ InGetFrame("timer"))

C8_OneUnreleasedBuffer ==
    /\ Cardinality({b \in 1..Len(freed) : ~freed[b]}) <= 1
    /\ \A b \in 1..Len(freed) : b # buffer => freed[b]
    /\ pc["user"] \in {"L53", "L56"} => freed[buffer]

\* Two set_shape calls have each replaced the buffer.
C8_Witness ==
    /\ Len(freed) >= 3
    /\ pc["user"] = "idle"
    /\ op = "set_shape"
    /\ outcome = "returned"
    /\ ~freed[buffer]

\* C9: with a single caller, get_frame gets past wait() only when the
\* transfer has completed, writes enable=0 and reset=1 only after that, has
\* no other way out of the wait, and returns once the transfer completes.
C9_ReturnsIffTransferCompletes ==
    /\ [](pc["user"] \in {"L69", "L70", "L71"} => dma.state = "idle")
    /\ [](pc["user"] = "L68" => (reset = 0 /\ enable = 1))
    /\ [][(pc["user"] = "L68" /\ pc'["user"] # "L68")
             => (dma.state = "idle" /\ pc'["user"] = "L69")]_vars
    /\ (InGetFrame("user") ~> ~InGetFrame("user"))

\* A manual get_frame has gone through its wait and returned.
C9_Witness ==
    /\ constructed
    /\ pc["user"] = "idle"
    /\ op = "get_frame"
    /\ outcome = "returned"
    /\ hw["user"] = HwOrder
    /\ dma.state = "idle"

\* C10: when allocate() fails inside set_shape the call ends with that
\* exception, packetsize keeps the value it had and no other buffer is taken.
C10_AllocFailurePropagates ==
    (op = "set_shape" /\ allocFailed)
        => /\ pc["user"] = "idle"
           /\ outcome = "raised"
           /\ exc = "AllocError"
           /\ packetsize = prePs
           /\ buffer = preBuf

\* set_shape has failed to allocate for a size other than the current one.
C10_Witness ==
    /\ op = "set_shape"
    /\ allocFailed
    /\ arg # <<>>
    /\ Product(arg) # prePs
    /\ packetsize = prePs

====
